---------------------------- MODULE Spec2Model ----------------------------
(***************************************************************************)
(* Piece/block assembly and selection engine of the BitTorrent client      *)
(* (piece_manager.py): Block, Piece and PieceManager.                      *)
(*                                                                         *)
(* Byte strings are sequences over ByteVals.  The block size is scaled     *)
(* down (BLOCK_SIZE bytes instead of 16384) so that pieces of one and of   *)
(* two blocks, the second one short, fit in the state space.  A None       *)
(* payload or an absent (None) result is the empty sequence.               *)
(***************************************************************************)
EXTENDS Integers, Sequences, FiniteSets, TLC

\* ---------------------------------------------------------------- bounds
NumPieces == 2
BLOCK_SIZE == 2
NumWorkers == 2

\* ------------------------------------------------------ program constants
DefaultPriority == 5
MinPriority == 1
MaxPriority == 10

ByteVals == {0, 1}
PieceIds == 0 .. (NumPieces - 1)
Workers == 1 .. NumWorkers
\* piece indices callers pass: the tracked ones and one untracked
IndexInputs == 0 .. NumPieces
\* priorities callers pass: below range, below default, above default, above range
PriorityInputs == {0, 3, 7, 11}

Min(a, b) == IF a < b THEN a ELSE b
Range(s) == {s[k] : k \in DOMAIN s}

RECURSIVE SeqsOfLen(_)
SeqsOfLen(n) ==
  IF n = 0 THEN {<<>>}
  ELSE {Append(s, b) : s \in SeqsOfLen(n - 1), b \in ByteVals}

Zeros(n) == [k \in 1 .. n |-> 0]

\* payloads peers send: empty, every byte string up to one block, one too long
Payloads ==
  UNION {SeqsOfLen(n) : n \in 0 .. BLOCK_SIZE} \cup {Zeros(BLOCK_SIZE + 1)}

\* ------------------------------------------------------------ collaborators
\* utils.sha1_hash: a collision-free digest of a byte string
RECURSIVE sha1_hash(_)
sha1_hash(b) ==
  IF b = <<>> THEN 0
  ELSE sha1_hash(SubSeq(b, 1, Len(b) - 1)) * (Cardinality(ByteVals) + 1)
         + b[Len(b)] + 1

\* torrent.get_total_pieces / get_piece_length / get_piece_hash: every piece
\* has the torrent's piece length except the last, which is shorter
get_total_pieces == NumPieces
get_piece_length(i) == IF i = NumPieces - 1 THEN BLOCK_SIZE ELSE BLOCK_SIZE + 1
TorrentContent(i) == [k \in 1 .. get_piece_length(i) |-> (i + k) % 2]
get_piece_hash(i) == sha1_hash(TorrentContent(i))

\* -------------------------------------------------------------------- Block
Block(piece_index, offset, length) ==
  [piece_index |-> piece_index, offset |-> offset, length |-> length,
   data |-> <<>>, requested |-> FALSE, received |-> FALSE]

\* -------------------------------------------------------------------- Piece
RECURSIVE create_blocks_full_last(_, _, _)
\* variant: every block, the last included, gets the standard block size
create_blocks_full_last(index, length, offset) ==
  IF offset < length
  THEN <<Block(index, offset, BLOCK_SIZE)>>
         \o create_blocks_full_last(index, length, offset + BLOCK_SIZE)
  ELSE <<>>

RECURSIVE create_blocks(_, _, _)
create_blocks(index, length, offset) ==
  IF offset < length
  THEN LET block_length == Min(BLOCK_SIZE, length - offset)
       IN  <<Block(index, offset, block_length)>>
             \o create_blocks(index, length, offset + block_length)
  ELSE <<>>

Piece(index, length, hash_value) ==
  [index |-> index, length |-> length, hash_value |-> hash_value,
   blocks |-> create_blocks(index, length, 0),
   completed |-> FALSE, verified |-> FALSE, data |-> Zeros(length)]

is_complete(piece) ==
  \A k \in 1 .. Len(piece.blocks) : piece.blocks[k].received

verify(piece) ==
  IF ~piece.completed THEN FALSE
  ELSE sha1_hash(piece.data) = piece.hash_value

\* self.data[offset:offset + len(data)] = data
SliceAssign(buf, offset, data) ==
  [k \in 1 .. Len(buf) |->
     IF k > offset /\ k <= offset + Len(data) THEN data[k - offset] ELSE buf[k]]

\* what add_block_data does once it has found the block to fill (lines 51-62)
store_block(piece, k, offset, data) ==
  LET stored == [piece EXCEPT
                   !.blocks[k].data = data,
                   !.blocks[k].received = TRUE,
                   !.data = SliceAssign(piece.data, offset, data)]
  IN  IF is_complete(stored)
      THEN LET c == [stored EXCEPT !.completed = TRUE]
           IN  [c EXCEPT !.verified = verify(c)]
      ELSE stored

\* variant: a block already received is filled again
add_block_data_overwrite(piece, offset, data) ==
  IF offset + Len(data) > piece.length
  THEN [piece |-> piece, ret |-> FALSE]
  ELSE LET hit == {k \in 1 .. Len(piece.blocks) :
                     /\ piece.blocks[k].offset = offset
                     /\ piece.blocks[k].length = Len(data)}
       IN  IF hit = {}
           THEN [piece |-> piece, ret |-> FALSE]
           ELSE LET k == CHOOSE x \in hit : \A y \in hit : x <= y
                IN  [piece |-> store_block(piece, k, offset, data), ret |-> TRUE]

\* variant: the block is matched by its offset alone
add_block_data_offset_only(piece, offset, data) ==
  IF offset + Len(data) > piece.length
  THEN [piece |-> piece, ret |-> FALSE]
  ELSE LET hit == {k \in 1 .. Len(piece.blocks) :
                     /\ piece.blocks[k].offset = offset
                     /\ ~piece.blocks[k].received}
       IN  IF hit = {}
           THEN [piece |-> piece, ret |-> FALSE]
           ELSE LET k == CHOOSE x \in hit : \A y \in hit : x <= y
                IN  [piece |-> store_block(piece, k, offset, data), ret |-> TRUE]

\* Piece.add_block_data: the piece afterwards and the value returned
add_block_data(piece, offset, data) ==
  IF offset + Len(data) > piece.length
  THEN [piece |-> piece, ret |-> FALSE]
  ELSE LET hit == {k \in 1 .. Len(piece.blocks) :
                     /\ piece.blocks[k].offset = offset
                     /\ piece.blocks[k].length = Len(data)
                     /\ ~piece.blocks[k].received}
       IN  IF hit = {}
           THEN [piece |-> piece, ret |-> FALSE]
           ELSE LET k == CHOOSE x \in hit : \A y \in hit : x <= y
                IN  [piece |-> store_block(piece, k, offset, data), ret |-> TRUE]

\* variant: a block already requested still counts as missing
get_missing_blocks_ignore_requested(piece) ==
  SelectSeq([k \in 1 .. Len(piece.blocks) |-> k],
            LAMBDA k : ~piece.blocks[k].received)

\* indices (in partition order) of the blocks neither received nor requested
get_missing_blocks(piece) ==
  SelectSeq([k \in 1 .. Len(piece.blocks) |-> k],
            LAMBDA k : ~piece.blocks[k].received /\ ~piece.blocks[k].requested)

get_requested_blocks(piece) ==
  SelectSeq([k \in 1 .. Len(piece.blocks) |-> k],
            LAMBDA k : piece.blocks[k].requested /\ ~piece.blocks[k].received)

\* variant: the blocks already received are cleared as well
reset_block_requests_all(piece) ==
  [piece EXCEPT !.blocks =
     [k \in 1 .. Len(piece.blocks) |->
        [piece.blocks[k] EXCEPT !.requested = FALSE, !.received = FALSE]]]

reset_block_requests(piece) ==
  [piece EXCEPT !.blocks =
     [k \in 1 .. Len(piece.blocks) |->
        IF ~piece.blocks[k].received
        THEN [piece.blocks[k] EXCEPT !.requested = FALSE]
        ELSE piece.blocks[k]]]

\* ------------------------------------------------------------- PieceManager
VARIABLES
  pieces,               \* piece index -> Piece
  completed_pieces,     \* set of piece indices
  high_priority_pieces, \* set of piece indices
  piece_priorities,     \* piece index -> priority, explicit entries only
  on_piece_completed,   \* TRUE when a completion callback is registered
  lock,                 \* 0 when free, else the worker holding it
  pc,                   \* worker -> position: idle, completed, callback, ret
  call,                 \* worker -> the call in progress and its result
  cb_log                \* piece index -> assembled bytes handed to the callback

vars == <<pieces, completed_pieces, high_priority_pieces, piece_priorities,
          on_piece_completed, lock, pc, call, cb_log>>

\* the rate limiter, the clock it reads and the workers inside check_rate_limit
VARIABLES
  bytes_downloaded_window, \* sequence of <<time, bytes>> samples
  download_rate_limit,     \* bytes per second
  now,                     \* time.time(), in whole seconds
  rate_pc,                 \* worker -> position in check_rate_limit
  rate_call,               \* worker -> the locals of its check_rate_limit call
  recorded                 \* every sample update_rate_stats appended, in order

rate_vars == <<bytes_downloaded_window, download_rate_limit, now, rate_pc,
               rate_call, recorded>>

\* the exception the last call of set_sequential_download ended in, or "none"
VARIABLE exception

\* TRUE when the callback the client registers calls a lock-acquiring
\* operation of the same manager
VARIABLE cb_reenters

\* the peer workers: the request each one holds, and the requests given up
VARIABLES
  held,     \* worker -> the <<piece index, offset, length>> it was given, or <<>>
  dropped   \* set of <<piece index, offset>> requested and never delivered

worker_vars == <<held, dropped>>

\* what the operations of the piece table leave alone
aux_vars == <<rate_vars, exception, cb_reenters, worker_vars>>

\* lines 101-103
download_rate_limit_default == 1048576
rate_window_size == 5

\* kept: the list built by lines 231-232; n, ok: the argument and the result
NoRateCall == [kept |-> <<>>, n |-> 0, ok |-> FALSE]

RateInit ==
  /\ bytes_downloaded_window = <<>>
  /\ download_rate_limit = download_rate_limit_default
  /\ now = 0
  /\ rate_pc = [w \in Workers |-> "idle"]
  /\ rate_call = [w \in Workers |-> NoRateCall]
  /\ recorded = <<>>

WorkerInit ==
  /\ held = [w \in Workers |-> <<>>]
  /\ dropped = {}

AuxInit ==
  /\ RateInit
  /\ exception = "none"
  /\ cb_reenters = FALSE
  /\ WorkerInit

\* line: the source line of the return statement reached
\* avail: the set get_next_request was called with
NoCall ==
  [op |-> "none", idx |-> -1, ok |-> FALSE, req |-> <<>>, line |-> 0, avail |-> {}]

initialize_pieces ==
  [i \in 0 .. (get_total_pieces - 1) |->
     Piece(i, get_piece_length(i), get_piece_hash(i))]

Init ==
  /\ pieces = initialize_pieces
  /\ completed_pieces = {}
  /\ high_priority_pieces = {}
  /\ piece_priorities = <<>>
  /\ on_piece_completed = FALSE
  /\ lock = 0
  /\ pc = [w \in Workers |-> "idle"]
  /\ call = [w \in Workers |-> NoCall]
  /\ cb_log = [i \in PieceIds |-> <<>>]
  /\ AuxInit

\* variant: no early return for a piece already completed
add_piece_data_ingest_no_early_return(ps, piece_index, offset, data) ==
  IF piece_index \notin DOMAIN ps
  THEN [pieces |-> ps, ok |-> FALSE, finish |-> FALSE, line |-> 130]
  ELSE LET r == add_block_data(ps[piece_index], offset, data)
       IN  [pieces |-> [ps EXCEPT ![piece_index] = r.piece],
            ok |-> r.ret,
            finish |-> r.ret /\ r.piece.completed,
            line |-> 158]

\* add_piece_data up to the test of line 139: the piece table afterwards, the
\* value add_piece_data will return, and whether the body of line 139 is entered
add_piece_data_ingest(ps, piece_index, offset, data) ==
  IF piece_index \notin DOMAIN ps
  THEN [pieces |-> ps, ok |-> FALSE, finish |-> FALSE, line |-> 130]
  ELSE IF ps[piece_index].completed
  THEN [pieces |-> ps, ok |-> TRUE, finish |-> FALSE, line |-> 134]
  ELSE LET r == add_block_data(ps[piece_index], offset, data)
       IN  [pieces |-> [ps EXCEPT ![piece_index] = r.piece],
            ok |-> r.ret,
            finish |-> r.ret /\ r.piece.completed,
            line |-> 158]

\* the full reset of lines 150-156
reset_piece(piece) ==
  [piece EXCEPT
     !.completed = FALSE,
     !.verified = FALSE,
     !.data = Zeros(piece.length),
     !.blocks = [k \in 1 .. Len(piece.blocks) |->
                   [piece.blocks[k] EXCEPT
                      !.data = <<>>, !.received = FALSE, !.requested = FALSE]]]

\* variant: the callback is invoked before the verified flag is tested
add_piece_data_finish_callback_first(ps, cp, log, cb, piece_index) ==
  LET piece == ps[piece_index]
      logged == IF cb
                THEN [log EXCEPT ![piece_index] = Append(@, piece.data)]
                ELSE log
  IN  IF piece.verified
      THEN [pieces |-> ps, completed_pieces |-> cp \cup {piece_index},
            cb_log |-> logged, called |-> cb]
      ELSE [pieces |-> [ps EXCEPT ![piece_index] = reset_piece(piece)],
            completed_pieces |-> cp, cb_log |-> logged, called |-> cb]

\* variant: the reset leaves the request flags set
add_piece_data_finish_keep_requested(ps, cp, log, cb, piece_index) ==
  LET piece == ps[piece_index]
  IN  IF piece.verified
      THEN [pieces |-> ps, completed_pieces |-> cp \cup {piece_index},
            cb_log |-> IF cb
                       THEN [log EXCEPT ![piece_index] = Append(@, piece.data)]
                       ELSE log,
            called |-> cb]
      ELSE [pieces |-> [ps EXCEPT ![piece_index] =
                          [reset_piece(piece) EXCEPT
                             !.blocks = [k \in 1 .. Len(piece.blocks) |->
                                           [@[k] EXCEPT !.requested =
                                              piece.blocks[k].requested]]]],
            completed_pieces |-> cp, cb_log |-> log, called |-> FALSE]

\* variant: the reset leaves the completed flag set
add_piece_data_finish_keep_completed(ps, cp, log, cb, piece_index) ==
  LET piece == ps[piece_index]
  IN  IF piece.verified
      THEN [pieces |-> ps, completed_pieces |-> cp \cup {piece_index},
            cb_log |-> IF cb
                       THEN [log EXCEPT ![piece_index] = Append(@, piece.data)]
                       ELSE log,
            called |-> cb]
      ELSE [pieces |-> [ps EXCEPT ![piece_index] =
                          [reset_piece(piece) EXCEPT !.completed = TRUE]],
            completed_pieces |-> cp, cb_log |-> log, called |-> FALSE]

\* variant: a verified piece is not added to the completed set
add_piece_data_finish_not_recorded(ps, cp, log, cb, piece_index) ==
  LET piece == ps[piece_index]
  IN  IF piece.verified
      THEN [pieces |-> ps, completed_pieces |-> cp,
            cb_log |-> IF cb
                       THEN [log EXCEPT ![piece_index] = Append(@, piece.data)]
                       ELSE log,
            called |-> cb]
      ELSE [pieces |-> [ps EXCEPT ![piece_index] = reset_piece(piece)],
            completed_pieces |-> cp, cb_log |-> log, called |-> FALSE]

\* lines 140-156: a completed piece is recorded and delivered, or reset
add_piece_data_finish(ps, cp, log, cb, piece_index) ==
  LET piece == ps[piece_index]
  IN  IF piece.verified
      THEN [pieces |-> ps,
            completed_pieces |-> cp \cup {piece_index},
            cb_log |-> IF cb
                       THEN [log EXCEPT ![piece_index] = Append(@, piece.data)]
                       ELSE log,
            called |-> cb]
      ELSE [pieces |-> [ps EXCEPT ![piece_index] = reset_piece(piece)],
            completed_pieces |-> cp,
            cb_log |-> log,
            called |-> FALSE]

\* add_piece_data from call to return with no other operation in between:
\* the manager's tables afterwards and the value returned
add_piece_data_call(ps, cp, log, cb, piece_index, offset, data) ==
  LET a == add_piece_data_ingest(ps, piece_index, offset, data)
  IN  IF a.finish
      THEN LET f == add_piece_data_finish(a.pieces, cp, log, cb, piece_index)
           IN  [pieces |-> f.pieces, completed_pieces |-> f.completed_pieces,
                cb_log |-> f.cb_log, ret |-> a.ok]
      ELSE [pieces |-> a.pieces, completed_pieces |-> cp, cb_log |-> log,
            ret |-> a.ok]

\* worker w calls add_piece_data: takes the lock, lines 129-139
add_piece_data(w, piece_index, offset, data) ==
  /\ lock = 0
  /\ pc[w] = "idle"
  /\ LET r == add_piece_data_ingest(pieces, piece_index, offset, data)
     IN  /\ pieces' = r.pieces
         /\ pc' = [pc EXCEPT ![w] = IF r.finish THEN "completed" ELSE "ret"]
         /\ call' = [call EXCEPT ![w] =
                       [op |-> "add", idx |-> piece_index, ok |-> r.ok,
                        req |-> <<>>, line |-> r.line, avail |-> {}]]
  /\ lock' = w
  /\ UNCHANGED <<completed_pieces, high_priority_pieces, piece_priorities,
                 on_piece_completed, cb_log>>
  /\ UNCHANGED aux_vars

\* lines 140-156, up to the entry of the callback
add_piece_data_completed(w) ==
  /\ pc[w] = "completed"
  /\ LET r == add_piece_data_finish(pieces, completed_pieces, cb_log,
                                    on_piece_completed, call[w].idx)
     IN  /\ pieces' = r.pieces
         /\ completed_pieces' = r.completed_pieces
         /\ cb_log' = r.cb_log
         /\ pc' = [pc EXCEPT ![w] = IF r.called THEN "callback" ELSE "ret"]
  /\ UNCHANGED <<high_priority_pieces, piece_priorities, on_piece_completed,
                 lock, call>>
  /\ UNCHANGED aux_vars

\* the completion callback returns (line 146)
callback_return(w) ==
  /\ pc[w] = "callback"
  /\ ~cb_reenters
  /\ pc' = [pc EXCEPT ![w] = "ret"]
  /\ UNCHANGED <<pieces, completed_pieces, high_priority_pieces,
                 piece_priorities, on_piece_completed, lock, call, cb_log>>
  /\ UNCHANGED aux_vars

\* the end of a `with self.lock` body: the lock is released, the value returned
release_and_return(w) ==
  /\ pc[w] = "ret"
  /\ lock = w
  /\ lock' = 0
  /\ pc' = [pc EXCEPT ![w] = "idle"]
  /\ call' = [call EXCEPT ![w] = NoCall]
  /\ UNCHANGED <<pieces, completed_pieces, high_priority_pieces,
                 piece_priorities, on_piece_completed, cb_log>>
  /\ UNCHANGED aux_vars

\* iteration orders of the set available_pieces: a Python set is walked in an
\* order the caller does not control, so every order of every subset is an input
Orders ==
  {s \in UNION {[1 .. n -> IndexInputs] : n \in 0 .. Cardinality(IndexInputs)} :
     \A a, b \in DOMAIN s : a # b => s[a] # s[b]}

\* list.sort(key=...): stable, ascending in key
RECURSIVE StableSort(_, _)
StableSort(s, key) ==
  IF s = <<>> THEN <<>>
  ELSE LET sorted == StableSort(SubSeq(s, 1, Len(s) - 1), key)
           x == s[Len(s)]
           n == Cardinality({k \in 1 .. Len(sorted) : key[sorted[k]] <= key[x]})
       IN  SubSeq(sorted, 1, n) \o <<x>> \o SubSeq(sorted, n + 1, Len(sorted))

\* self.piece_priorities.get(p, 5)
priority_of(pp, p) == IF p \in DOMAIN pp THEN pp[p] ELSE DefaultPriority

\* lines 164-168: the wanted pieces, in the order the set is walked
needed_pieces(ps, cp, order) ==
  SelectSeq(order, LAMBDA p : p \in DOMAIN ps /\ p \notin cp)

\* variant: no restriction to the high-priority pieces
prioritized_no_override(ps, cp, hp, pp, order) ==
  StableSort(needed_pieces(ps, cp, order),
             [p \in DOMAIN ps |-> 0 - priority_of(pp, p)])

\* variant: the sort by priority is ascending
prioritized_ascending(ps, cp, hp, pp, order) ==
  LET needed == needed_pieces(ps, cp, order)
      high_priority == SelectSeq(needed, LAMBDA p : p \in hp)
  IN  IF high_priority # <<>>
      THEN high_priority
      ELSE StableSort(needed, [p \in DOMAIN ps |-> priority_of(pp, p)])

\* lines 174-179: the high-priority restriction, else the sort by priority
\* (reverse=True keeps the order of equal keys, as a sort on the negated key)
prioritized(ps, cp, hp, pp, order) ==
  LET needed == needed_pieces(ps, cp, order)
      high_priority == SelectSeq(needed, LAMBDA p : p \in hp)
  IN  IF high_priority # <<>>
      THEN high_priority
      ELSE StableSort(needed, [p \in DOMAIN ps |-> 0 - priority_of(pp, p)])

\* variant: the sort by the number of missing blocks is left out
ranked_unsorted(ps, cp, hp, pp, order) == prioritized(ps, cp, hp, pp, order)

\* line 182: the sort by the number of missing blocks
ranked(ps, cp, hp, pp, order) ==
  StableSort(prioritized(ps, cp, hp, pp, order),
             [p \in DOMAIN ps |-> Len(get_missing_blocks(ps[p]))])

\* lines 170-171 and 185-194: <<piece index, block position>> of the block
\* chosen, or <<>>
choose_block(ps, cp, hp, pp, order) ==
  IF needed_pieces(ps, cp, order) = <<>> THEN <<>>
  ELSE LET final == ranked(ps, cp, hp, pp, order)
           withMissing ==
             SelectSeq(final, LAMBDA p : get_missing_blocks(ps[p]) # <<>>)
       IN  IF withMissing = <<>> THEN <<>>
           ELSE <<withMissing[1], get_missing_blocks(ps[withMissing[1]])[1]>>

\* worker w calls get_next_request with a set walked in the given order
get_next_request(w, order) ==
  /\ lock = 0
  /\ pc[w] = "idle"
  /\ LET c == choose_block(pieces, completed_pieces, high_priority_pieces,
                           piece_priorities, order)
     IN  IF c = <<>>
         THEN /\ pieces' = pieces
              /\ call' = [call EXCEPT ![w] =
                            [op |-> "get", idx |-> -1, ok |-> FALSE, req |-> <<>>,
                             line |-> IF needed_pieces(pieces, completed_pieces,
                                                       order) = <<>>
                                      THEN 171 ELSE 194,
                             avail |-> Range(order)]]
         ELSE LET block == pieces[c[1]].blocks[c[2]]
              IN  /\ pieces' = [pieces EXCEPT ![c[1]].blocks[c[2]].requested = TRUE]
                  /\ call' = [call EXCEPT ![w] =
                                [op |-> "get", idx |-> c[1], ok |-> TRUE,
                                 req |-> <<c[1], block.offset, block.length>>,
                                 line |-> 192, avail |-> Range(order)]]
  /\ lock' = w
  /\ pc' = [pc EXCEPT ![w] = "ret"]
  /\ UNCHANGED <<completed_pieces, high_priority_pieces, piece_priorities,
                 on_piece_completed, cb_log>>
  /\ UNCHANGED aux_vars

\* variant: marking a block requested also clears its received flag
mark_requested_again(ps, piece_index, offset) ==
  IF piece_index \notin DOMAIN ps THEN ps
  ELSE LET hit == {k \in 1 .. Len(ps[piece_index].blocks) :
                     ps[piece_index].blocks[k].offset = offset}
       IN  IF hit = {} THEN ps
           ELSE LET k == CHOOSE x \in hit : \A y \in hit : x <= y
                IN  [ps EXCEPT ![piece_index].blocks[k].requested = TRUE,
                               ![piece_index].blocks[k].received = FALSE]

\* mark_block_requested: the first block at that offset is flagged
mark_requested(ps, piece_index, offset) ==
  IF piece_index \notin DOMAIN ps THEN ps
  ELSE LET hit == {k \in 1 .. Len(ps[piece_index].blocks) :
                     ps[piece_index].blocks[k].offset = offset}
       IN  IF hit = {} THEN ps
           ELSE LET k == CHOOSE x \in hit : \A y \in hit : x <= y
                IN  [ps EXCEPT ![piece_index].blocks[k].requested = TRUE]

mark_block_requested(w, piece_index, offset) ==
  /\ lock = 0
  /\ pc[w] = "idle"
  /\ pieces' = mark_requested(pieces, piece_index, offset)
  /\ UNCHANGED <<completed_pieces, high_priority_pieces, piece_priorities,
                 on_piece_completed, lock, pc, call, cb_log>>
  /\ UNCHANGED aux_vars

reset_requests(ps, piece_index) ==
  IF piece_index \in DOMAIN ps
  THEN [ps EXCEPT ![piece_index] = reset_block_requests(ps[piece_index])]
  ELSE ps

\* worker w calls reset_piece_requests; req records the blocks of the piece
\* that were requested and not received when the call was made
reset_piece_requests(w, piece_index) ==
  /\ lock = 0
  /\ pc[w] = "idle"
  /\ pieces' = reset_requests(pieces, piece_index)
  /\ call' = [call EXCEPT ![w] =
                [op |-> "reset", idx |-> piece_index, ok |-> FALSE,
                 req |-> IF piece_index \in DOMAIN pieces
                         THEN get_requested_blocks(pieces[piece_index])
                         ELSE <<>>,
                 line |-> 210, avail |-> {}]]
  /\ lock' = w
  /\ pc' = [pc EXCEPT ![w] = "ret"]
  /\ UNCHANGED <<completed_pieces, high_priority_pieces, piece_priorities,
                 on_piece_completed, cb_log>>
  /\ UNCHANGED aux_vars

\* ------------------------------------------- operations that take no lock
set_priority(pp, piece_index, priority) ==
  IF MinPriority <= priority /\ priority <= MaxPriority
  THEN [p \in DOMAIN pp \cup {piece_index} |->
          IF p = piece_index THEN priority ELSE pp[p]]
  ELSE pp

set_piece_priority(piece_index, priority) ==
  /\ piece_priorities' = set_priority(piece_priorities, piece_index, priority)
  /\ UNCHANGED <<pieces, completed_pieces, high_priority_pieces,
                 on_piece_completed, lock, pc, call, cb_log>>
  /\ UNCHANGED aux_vars

set_high_priority_piece(piece_index) ==
  /\ high_priority_pieces' = high_priority_pieces \cup {piece_index}
  /\ UNCHANGED <<pieces, completed_pieces, piece_priorities,
                 on_piece_completed, lock, pc, call, cb_log>>
  /\ UNCHANGED aux_vars

\* the client assigns on_piece_completed
register_callback ==
  /\ ~on_piece_completed
  /\ on_piece_completed' = TRUE
  /\ UNCHANGED <<pieces, completed_pieces, high_priority_pieces,
                 piece_priorities, lock, pc, call, cb_log>>
  /\ UNCHANGED aux_vars

Next ==
  \/ \E w \in Workers, i \in IndexInputs, o \in 0 .. (BLOCK_SIZE + 1),
        d \in Payloads : add_piece_data(w, i, o, d)
  \/ \E w \in Workers : add_piece_data_completed(w)
  \/ \E w \in Workers : callback_return(w)
  \/ \E w \in Workers : release_and_return(w)
  \/ \E w \in Workers, order \in Orders : get_next_request(w, order)
  \/ \E w \in Workers, i \in IndexInputs, o \in 0 .. (BLOCK_SIZE + 1) :
        mark_block_requested(w, i, o)
  \/ \E w \in Workers, i \in IndexInputs : reset_piece_requests(w, i)
  \/ \E i \in PieceIds, p \in PriorityInputs : set_piece_priority(i, p)
  \/ \E i \in PieceIds : set_high_priority_piece(i)
  \/ register_callback

Spec == Init /\ [][Next]_vars

\* ------------------------------------------------------------------ claims
AllReceived(piece) == \A k \in 1 .. Len(piece.blocks) : piece.blocks[k].received
HashMatches(piece) == sha1_hash(piece.data) = piece.hash_value
\* worker w is inside add_piece_data for piece i, at line 140
AtCompleted(w, i) == pc[w] = "completed" /\ call[w].idx = i

\* C1: a piece whose blocks were all ingested with bytes that hash to the
\* expected digest has completed and verified set and is in the completed set;
\* with a callback registered when it completes, the callback is invoked for
\* it at that moment, once, and never again whatever calls follow; it is never
\* invoked for a piece outside the completed set.
C1_State ==
  \A i \in PieceIds :
    /\ (AllReceived(pieces[i]) /\ HashMatches(pieces[i])
          /\ ~(\E w \in Workers : AtCompleted(w, i)))
       => /\ pieces[i].completed
          /\ pieces[i].verified
          /\ i \in completed_pieces
    /\ Len(cb_log[i]) <= 1
    /\ i \notin completed_pieces => cb_log[i] = <<>>
C1_Step ==
  \A i \in PieceIds :
    /\ (i \notin completed_pieces /\ i \in completed_pieces' /\ on_piece_completed)
       => cb_log'[i] = <<pieces'[i].data>>
    /\ i \in completed_pieces => cb_log'[i] = cb_log[i]
C1_CallbackExactlyOnce == [](C1_State) /\ [][C1_Step]_vars
\* a late add_piece_data returned at line 134 for a piece delivered once
C1_Witness ==
  \E w \in Workers :
    /\ pc[w] = "ret" /\ call[w].op = "add" /\ call[w].line = 134
    /\ call[w].idx \in completed_pieces
    /\ Len(cb_log[call[w].idx]) = 1
    /\ pieces[call[w].idx].completed /\ pieces[call[w].idx].verified

\* C2: when the call that stored the last outstanding block finds the
\* buffer's hash different from the digest, then on its return every block of
\* the piece is Missing with no payload, the buffer is all zero, completed and
\* verified are false, the index is not in the completed set and the callback
\* has not been invoked for it.
C2_Step ==
  \A w \in Workers :
    (/\ pc[w] = "completed"
     /\ ~HashMatches(pieces[call[w].idx])
     /\ pc'[w] # "completed")
    => LET i == call[w].idx
           p == pieces'[i]
       IN  /\ pc'[w] = "ret"
           /\ \A k \in 1 .. Len(p.blocks) :
                /\ ~p.blocks[k].received
                /\ ~p.blocks[k].requested
                /\ p.blocks[k].data = <<>>
           /\ p.data = Zeros(p.length)
           /\ ~p.completed /\ ~p.verified
           /\ i \notin completed_pieces'
           /\ cb_log'[i] = <<>>
C2_FailedVerificationResets == [][C2_Step]_vars
\* add_piece_data returns true from line 158 and the piece holds no block:
\* the call stored the last block and the piece was reset
C2_Witness ==
  \E w \in Workers :
    /\ pc[w] = "ret" /\ call[w].op = "add" /\ call[w].line = 158 /\ call[w].ok
    /\ call[w].idx \notin completed_pieces
    /\ \A k \in 1 .. Len(pieces[call[w].idx].blocks) :
         ~pieces[call[w].idx].blocks[k].received
    /\ pieces[call[w].idx].data = Zeros(pieces[call[w].idx].length)

\* C3: a piece is completed but not verified only while a worker holds the
\* lock inside add_piece_data for that piece, between lines 137 and 150; in
\* particular never while the lock is free.
C3_NoCompletedUnverified ==
  \A i \in PieceIds :
    (pieces[i].completed /\ ~pieces[i].verified)
    => /\ lock # 0
       /\ AtCompleted(lock, i)
\* the transient state exists: a worker holds the lock on such a piece
C3_Witness ==
  \E i \in PieceIds :
    /\ pieces[i].completed /\ ~pieces[i].verified
    /\ lock # 0 /\ AtCompleted(lock, i)

\* C4: once in the completed set a piece index stays there; no step changes
\* the piece's buffer, its completed and verified flags or the received flag
\* and payload of its blocks; add_piece_data for that index returns true.
C4_Step ==
  /\ \A i \in completed_pieces :
       /\ i \in completed_pieces'
       /\ pieces'[i].data = pieces[i].data
       /\ pieces'[i].completed /\ pieces'[i].verified
       /\ \A k \in 1 .. Len(pieces[i].blocks) :
            /\ pieces'[i].blocks[k].received
            /\ pieces'[i].blocks[k].data = pieces[i].blocks[k].data
  /\ \A w \in Workers :
       (/\ pc[w] = "idle" /\ pc'[w] # "idle"
        /\ call'[w].op = "add"
        /\ call'[w].idx \in completed_pieces)
       => /\ pc'[w] = "ret"
          /\ call'[w].ok
C4_VerifiedIsTerminal == [][C4_Step]_vars
\* a block of a completed piece carries a request flag set while a worker
\* returns true from add_piece_data for that piece
C4_Witness ==
  \E w \in Workers :
    /\ pc[w] = "ret" /\ call[w].op = "add" /\ call[w].ok /\ call[w].line = 134
    /\ call[w].idx \in completed_pieces
    /\ \E k \in 1 .. Len(pieces[call[w].idx].blocks) :
         pieces[call[w].idx].blocks[k].requested

Offsets == 0 .. (BLOCK_SIZE + 1)
\* the same submission made twice in a row from the current state
First(i, o, d) ==
  add_piece_data_call(pieces, completed_pieces, cb_log, on_piece_completed, i, o, d)
Second(i, o, d) ==
  LET r1 == First(i, o, d)
  IN  add_piece_data_call(r1.pieces, r1.completed_pieces, r1.cb_log,
                          on_piece_completed, i, o, d)
SameTables(r1, r2) ==
  /\ r1.pieces = r2.pieces
  /\ r1.completed_pieces = r2.completed_pieces
\* the first call stored the last block and the hash did not match
FirstFailsVerification(i, o, d) ==
  LET a == add_piece_data_ingest(pieces, i, o, d)
  IN  a.finish /\ ~HashMatches(a.pieces[i])

\* C5 (as stated): whenever a call can start, the same (index, offset,
\* payload) submitted twice in a row makes the second call return false and
\* leave buffer, block states and completion state as the first left them,
\* for every submission.
C5_Original ==
  lock = 0 =>
    \A i \in IndexInputs, o \in Offsets, d \in Payloads :
      /\ ~Second(i, o, d).ret
      /\ SameTables(First(i, o, d), Second(i, o, d))

\* C5 (amended): the second of two identical submissions in a row returns
\* false and changes nothing, except that it returns true, still changing
\* nothing, when the piece is completed once the first call has returned, and
\* that it returns true, the piece having been reset, when the first call
\* stored the last block and verification failed.
C5_Idempotent ==
  lock = 0 =>
    \A i \in IndexInputs, o \in Offsets, d \in Payloads :
      LET r1 == First(i, o, d)
          r2 == Second(i, o, d)
      IN  IF i \in PieceIds /\ r1.pieces[i].completed
          THEN r2.ret /\ SameTables(r1, r2) /\ r2.cb_log = r1.cb_log
          ELSE IF FirstFailsVerification(i, o, d)
          THEN r2.ret
          ELSE ~r2.ret /\ SameTables(r1, r2) /\ r2.cb_log = r1.cb_log
\* a worker returns true from line 158 having stored a block of a piece still
\* incomplete; submitting that block's offset and payload again returns false
\* and changes nothing
C5_Witness ==
  \E w \in Workers :
    /\ pc[w] = "ret" /\ call[w].op = "add" /\ call[w].line = 158 /\ call[w].ok
    /\ call[w].idx \notin completed_pieces
    /\ \E k \in 1 .. Len(pieces[call[w].idx].blocks) :
         LET b == pieces[call[w].idx].blocks[k]
             r2 == add_piece_data_call(pieces, completed_pieces, cb_log,
                                       on_piece_completed, call[w].idx,
                                       b.offset, b.data)
         IN  b.received /\ ~r2.ret /\ r2.pieces = pieces

\* the submissions the claim calls rejected
Rejected(i, o, d) ==
  \/ i \notin PieceIds
  \/ o + Len(d) > pieces[i].length
  \/ ~\E k \in 1 .. Len(pieces[i].blocks) :
        pieces[i].blocks[k].offset = o /\ pieces[i].blocks[k].length = Len(d)
UnchangedBy(r) ==
  /\ r.pieces = pieces
  /\ r.completed_pieces = completed_pieces
  /\ r.cb_log = cb_log

\* C6 (as stated): whenever a call can start, add_piece_data returns false and
\* changes no piece, block, buffer nor the completed set if the index is
\* untracked, offset plus payload length exceeds the piece length, or no block
\* has that (offset, length).
C6_Original ==
  lock = 0 =>
    \A i \in IndexInputs, o \in Offsets, d \in Payloads :
      Rejected(i, o, d) => ~First(i, o, d).ret /\ UnchangedBy(First(i, o, d))

\* C6 (amended): such a call changes no piece, block, buffer nor the completed
\* set; it returns false, except for a piece already completed, where it
\* returns true.
C6_RejectedChangesNothing ==
  lock = 0 =>
    \A i \in IndexInputs, o \in Offsets, d \in Payloads :
      Rejected(i, o, d)
      => /\ First(i, o, d).ret = (i \in PieceIds /\ pieces[i].completed)
         /\ UnchangedBy(First(i, o, d))
\* add_piece_data returns false from line 158 for a tracked piece none of
\* whose blocks is received: no block matched the submission
C6_Witness ==
  \E w \in Workers :
    /\ pc[w] = "ret" /\ call[w].op = "add" /\ call[w].line = 158 /\ ~call[w].ok
    /\ call[w].idx \in PieceIds
    /\ call[w].idx \notin completed_pieces
    /\ \A k \in 1 .. Len(pieces[call[w].idx].blocks) :
         ~pieces[call[w].idx].blocks[k].received
    /\ \E k \in 1 .. Len(pieces[call[w].idx].blocks) :
         pieces[call[w].idx].blocks[k].requested
\* the step is worker w calling get_next_request
IsGetCall(w) == pc[w] = "idle" /\ pc'[w] = "ret" /\ call'[w].op = "get"
\* position of the block of piece i at the given offset
BlockAt(i, o) ==
  CHOOSE k \in 1 .. Len(pieces[i].blocks) : pieces[i].blocks[k].offset = o
IsMissing(b) == ~b.received /\ ~b.requested
MissingCount(i) ==
  Cardinality({k \in 1 .. Len(pieces[i].blocks) : IsMissing(pieces[i].blocks[k])})
\* the candidates of a call with the given set: tracked, not completed
Candidates(avail) == (avail \cap PieceIds) \ completed_pieces
\* the candidates in force once the high-priority restriction is applied
InForce(avail) ==
  IF Candidates(avail) \cap high_priority_pieces # {}
  THEN Candidates(avail) \cap high_priority_pieces
  ELSE Candidates(avail)
\* the candidates in force with the smallest non-zero number of missing blocks
Fewest(avail) ==
  {p \in InForce(avail) :
     /\ MissingCount(p) > 0
     /\ \A q \in InForce(avail) :
          MissingCount(q) > 0 => MissingCount(p) <= MissingCount(q)}
EffectivePriority(p) ==
  IF p \in DOMAIN piece_priorities THEN piece_priorities[p] ELSE DefaultPriority

\* C7: a block returned by get_next_request was Missing when the call started,
\* is Requested when it returns, is not Received and belongs to a tracked piece
\* outside the completed set; a block that is not Missing becomes Missing only
\* by reset_piece_requests for its piece (if it was not Received) or by the
\* reset after a failed verification of its piece.  Hence no block is returned
\* twice without such a reset in between.
C7_Step ==
  /\ \A w \in Workers :
       (IsGetCall(w) /\ call'[w].ok)
       => LET i == call'[w].req[1]
              o == call'[w].req[2]
          IN  /\ i \in PieceIds
              /\ i \notin completed_pieces
              /\ \E k \in 1 .. Len(pieces[i].blocks) :
                   pieces[i].blocks[k].offset = o
              /\ pieces[i].blocks[BlockAt(i, o)].length = call'[w].req[3]
              /\ IsMissing(pieces[i].blocks[BlockAt(i, o)])
              /\ pieces'[i].blocks[BlockAt(i, o)].requested
              /\ ~pieces'[i].blocks[BlockAt(i, o)].received
  /\ \A i \in PieceIds : \A k \in 1 .. Len(pieces[i].blocks) :
       (~IsMissing(pieces[i].blocks[k]) /\ IsMissing(pieces'[i].blocks[k]))
       => \/ /\ ~pieces[i].blocks[k].received
             /\ \E w \in Workers : reset_piece_requests(w, i)
          \/ \E w \in Workers :
               AtCompleted(w, i) /\ ~pieces[i].verified /\ pc'[w] = "ret"
C7_BlockHandedOutOnce == [][C7_Step]_vars
\* get_next_request returns the second block of a piece whose first block is
\* Requested and not Received
C7_Witness ==
  \E w \in Workers :
    /\ pc[w] = "ret" /\ call[w].op = "get" /\ call[w].ok
    /\ call[w].req[2] > 0
    /\ LET b == pieces[call[w].req[1]].blocks[1]
       IN  b.requested /\ ~b.received

\* C8: when the set passed to get_next_request holds a tracked, uncompleted
\* high-priority piece, the call returns nothing or a block of a high-priority
\* piece; if such a piece has a Missing block it returns a block of a
\* high-priority candidate.
C8_Step ==
  \A w \in Workers :
    (IsGetCall(w) /\ Candidates(call'[w].avail) \cap high_priority_pieces # {})
    => LET hpc == Candidates(call'[w].avail) \cap high_priority_pieces
       IN  /\ call'[w].ok => call'[w].req[1] \in hpc
           /\ (\E p \in hpc : MissingCount(p) > 0) => call'[w].ok
C8_HighPriorityOverride == [][C8_Step]_vars
\* a block of a high-priority piece was returned while another candidate, not
\* high-priority, had fewer missing blocks (at least one) and a higher priority
\* (the piece returned has one Missing block less than when the call started)
C8_Witness ==
  \E w \in Workers :
    /\ pc[w] = "ret" /\ call[w].op = "get" /\ call[w].ok
    /\ call[w].req[1] \in high_priority_pieces
    /\ \E q \in Candidates(call[w].avail) \ high_priority_pieces :
         /\ MissingCount(q) > 0
         /\ MissingCount(q) < MissingCount(call[w].req[1]) + 1
         /\ EffectivePriority(q) > EffectivePriority(call[w].req[1])

\* C9: a block returned by get_next_request belongs to a candidate in force
\* with the smallest non-zero number of Missing blocks, whatever the
\* priorities, and is that piece's first Missing block in offset order.
C9_Step ==
  \A w \in Workers :
    (IsGetCall(w) /\ call'[w].ok)
    => LET i == call'[w].req[1]
       IN  /\ i \in Fewest(call'[w].avail)
           /\ \A k \in 1 .. Len(pieces[i].blocks) :
                IsMissing(pieces[i].blocks[k])
                => call'[w].req[2] <= pieces[i].blocks[k].offset
C9_FewestMissingFirst == [][C9_Step]_vars
\* another candidate in force had more Missing blocks than the piece returned
\* and a higher priority (the piece returned has one Missing block less than
\* when the call started)
C9_Witness ==
  \E w \in Workers :
    /\ pc[w] = "ret" /\ call[w].op = "get" /\ call[w].ok
    /\ \E q \in InForce(call[w].avail) \ {call[w].req[1]} :
         /\ MissingCount(q) > MissingCount(call[w].req[1]) + 1
         /\ EffectivePriority(q) > EffectivePriority(call[w].req[1])

\* C10 (as stated): among the candidates in force with the smallest non-zero
\* number of Missing blocks, the piece returned has the highest priority,
\* with or without the high-priority restriction.
C10_OriginalStep ==
  \A w \in Workers :
    (IsGetCall(w) /\ call'[w].ok)
    => \A q \in Fewest(call'[w].avail) :
         EffectivePriority(call'[w].req[1]) >= EffectivePriority(q)
C10_Original == [][C10_OriginalStep]_vars

\* C10 (amended): when no candidate is high-priority, the piece returned has
\* the highest priority among the candidates with the smallest non-zero number
\* of Missing blocks; when the candidates are restricted to the high-priority
\* ones the priorities are not consulted and the piece returned is one of the
\* high-priority candidates with the smallest non-zero number of Missing
\* blocks.
C10_Step ==
  \A w \in Workers :
    (IsGetCall(w) /\ call'[w].ok)
    => /\ call'[w].req[1] \in Fewest(call'[w].avail)
       /\ Candidates(call'[w].avail) \cap high_priority_pieces = {}
          => \A q \in Fewest(call'[w].avail) :
               EffectivePriority(call'[w].req[1]) >= EffectivePriority(q)
C10_PriorityBreaksTies == [][C10_Step]_vars
\* no candidate is high-priority and the piece returned tied on the number of
\* Missing blocks with a candidate of lower priority that is not the default
\* (the piece returned has one Missing block less than when the call started)
C10_Witness ==
  \E w \in Workers :
    /\ pc[w] = "ret" /\ call[w].op = "get" /\ call[w].ok
    /\ Candidates(call[w].avail) \cap high_priority_pieces = {}
    /\ \E q \in Candidates(call[w].avail) \ {call[w].req[1]} :
         /\ MissingCount(q) = MissingCount(call[w].req[1]) + 1
         /\ EffectivePriority(q) < EffectivePriority(call[w].req[1])
         /\ EffectivePriority(q) # DefaultPriority
\* ------------------------------------------------------------ rate limiter
MaxTime == 6
MaxSamples == 2
RateLimits == {1000, download_rate_limit_default}
SampleBytes == {1000, 4000}
RequestBytes == {0, 1000}

RECURSIVE total_bytes(_)
\* line 235: the sum of the bytes of the samples
total_bytes(window) ==
  IF window = <<>> THEN 0 ELSE Head(window)[2] + total_bytes(Tail(window))

\* variant: nothing is ever dropped from the window
prune_keep_all(window, current_time) == window

\* lines 231-232: the samples no older than the window
prune(window, current_time) ==
  SelectSeq(window, LAMBDA s : current_time - s[1] <= rate_window_size)

\* lines 235-238: current_rate + num_bytes / rate_window_size against the
\* limit, both sides multiplied by rate_window_size
within_limit(window, num_bytes, limit) ==
  LET total == IF window # <<>> THEN total_bytes(window) ELSE 0
  IN  total + num_bytes <= limit * rate_window_size

set_download_rate_limit(limit) ==
  /\ download_rate_limit' = limit
  /\ UNCHANGED <<bytes_downloaded_window, now, rate_pc, rate_call, recorded>>
  /\ UNCHANGED <<vars, exception, cb_reenters, worker_vars>>

\* update_rate_stats: one append, no lock taken
update_rate_stats(num_bytes) ==
  /\ Len(recorded) < MaxSamples
  /\ bytes_downloaded_window' = Append(bytes_downloaded_window, <<now, num_bytes>>)
  /\ recorded' = Append(recorded, <<now, num_bytes>>)
  /\ UNCHANGED <<download_rate_limit, now, rate_pc, rate_call>>
  /\ UNCHANGED <<vars, exception, cb_reenters, worker_vars>>

\* check_rate_limit, lines 228-232 up to the assignment: the clock is read and
\* the filtered list is built from the window as it is now; no lock is taken
check_rate_limit(w, num_bytes) ==
  /\ rate_pc[w] = "idle"
  /\ rate_pc' = [rate_pc EXCEPT ![w] = "pruned"]
  /\ rate_call' = [rate_call EXCEPT ![w] =
                     [kept |-> prune(bytes_downloaded_window, now),
                      n |-> num_bytes, ok |-> FALSE]]
  /\ UNCHANGED <<bytes_downloaded_window, download_rate_limit, now, recorded>>
  /\ UNCHANGED <<vars, exception, cb_reenters, worker_vars>>

\* line 231: the filtered list replaces the window
check_rate_limit_store(w) ==
  /\ rate_pc[w] = "pruned"
  /\ bytes_downloaded_window' = rate_call[w].kept
  /\ rate_pc' = [rate_pc EXCEPT ![w] = "stored"]
  /\ rate_call' = [rate_call EXCEPT ![w].kept = <<>>]
  /\ UNCHANGED <<download_rate_limit, now, recorded>>
  /\ UNCHANGED <<vars, exception, cb_reenters, worker_vars>>

\* lines 235-238: the result is computed from the window and the limit as
\* they are now
check_rate_limit_result(w) ==
  /\ rate_pc[w] = "stored"
  /\ rate_call' = [rate_call EXCEPT ![w].ok =
                     within_limit(bytes_downloaded_window, rate_call[w].n,
                                  download_rate_limit)]
  /\ rate_pc' = [rate_pc EXCEPT ![w] = "ret"]
  /\ UNCHANGED <<bytes_downloaded_window, download_rate_limit, now, recorded>>
  /\ UNCHANGED <<vars, exception, cb_reenters, worker_vars>>

check_rate_limit_return(w) ==
  /\ rate_pc[w] = "ret"
  /\ rate_pc' = [rate_pc EXCEPT ![w] = "idle"]
  /\ rate_call' = [rate_call EXCEPT ![w] = NoRateCall]
  /\ UNCHANGED <<bytes_downloaded_window, download_rate_limit, now, recorded>>
  /\ UNCHANGED <<vars, exception, cb_reenters, worker_vars>>

\* time passes
tick ==
  /\ now < MaxTime
  /\ now' = now + 1
  /\ UNCHANGED <<bytes_downloaded_window, download_rate_limit, rate_pc,
                 rate_call, recorded>>
  /\ UNCHANGED <<vars, exception, cb_reenters, worker_vars>>

NextRate ==
  \/ \E l \in RateLimits : set_download_rate_limit(l)
  \/ \E n \in SampleBytes : update_rate_stats(n)
  \/ \E w \in Workers, n \in RequestBytes : check_rate_limit(w, n)
  \/ \E w \in Workers : check_rate_limit_store(w)
  \/ \E w \in Workers : check_rate_limit_result(w)
  \/ \E w \in Workers : check_rate_limit_return(w)
  \/ tick

all_vars == <<vars, aux_vars>>

SpecRate == Init /\ [][NextRate]_all_vars

\* the number of positions of a sequence that hold the sample s
Count(seq, s) == Cardinality({k \in 1 .. Len(seq) : seq[k] = s})

\* a recorded sample that no check_rate_limit could have found too old
Fresh(s) == now - s[1] <= rate_window_size

\* C11: every operation runs to completion under the manager's lock, so the
\* effect of concurrent calls is that of some one-at-a-time order; for the rate
\* window this means a sample appended by update_rate_stats while a
\* check_rate_limit is pruning is never lost: every sample recorded no longer
\* ago than the window is still in the window.
C11_NoSampleLost ==
  \A k \in 1 .. Len(recorded) :
    Fresh(recorded[k]) =>
      Count(bytes_downloaded_window, recorded[k]) >= Count(recorded, recorded[k])

\* the samples update_rate_stats recorded no longer ago than the window
RecentSamples == SelectSeq(recorded, Fresh)

\* the decision the rate rule prescribes for a request of n bytes
Allowed(n) ==
  total_bytes(RecentSamples) + n <= download_rate_limit * rate_window_size

\* C12: check_rate_limit(n) returns true iff the byte counts of the samples
\* recorded by update_rate_stats no longer ago than the window, plus n, are at
\* most limit * window (stated for the calls that return while every recorded
\* sample is still within the window, whenever the call read the clock).
C12_Step ==
  \A w \in Workers :
    (check_rate_limit_result(w) /\ RecentSamples = recorded)
      => (rate_call'[w].ok <=> Allowed(rate_call[w].n))
C12_RateDecision == [][C12_Step]_all_vars


\* -------------------------------------------------------- sequential mode
MaxSeqPieces == 12
SeqSizes == 0 .. MaxSeqPieces

\* a manager constructed over n pieces of one byte each
InitSeq ==
  /\ \E n \in SeqSizes :
       pieces = [i \in 0 .. (n - 1) |-> Piece(i, 1, sha1_hash(<<0>>))]
  /\ completed_pieces = {}
  /\ high_priority_pieces = {}
  /\ piece_priorities = <<>>
  /\ on_piece_completed = FALSE
  /\ lock = 0
  /\ pc = [w \in Workers |-> "idle"]
  /\ call = [w \in Workers |-> NoCall]
  /\ cb_log = [i \in PieceIds |-> <<>>]
  /\ AuxInit

RECURSIVE sequential_loop(_, _, _)
\* lines 270-271: the loop from index i on, over total_pieces pieces with
\* total_pieces \div 10 # 0
sequential_loop(pp, i, total_pieces) ==
  IF i >= total_pieces THEN pp
  ELSE sequential_loop(
         set_priority(pp, i, MaxPriority - (i \div (total_pieces \div 10))),
         i + 1, total_pieces)

\* lines 267-274: the table afterwards and the exception raised, if any; the
\* integer division of line 271 raises ZeroDivisionError in the first
\* iteration when total_pieces \div 10 = 0
sequential_download(pp, total_pieces, enable) ==
  IF ~enable THEN [piece_priorities |-> <<>>, exception |-> "none"]
  ELSE IF total_pieces > 0 /\ total_pieces \div 10 = 0
       THEN [piece_priorities |-> pp, exception |-> "ZeroDivisionError"]
       ELSE [piece_priorities |-> sequential_loop(pp, 0, total_pieces),
             exception |-> "none"]

set_sequential_download(enable) ==
  /\ LET r == sequential_download(piece_priorities, Cardinality(DOMAIN pieces),
                                  enable)
     IN  /\ piece_priorities' = r.piece_priorities
         /\ exception' = r.exception
  /\ UNCHANGED <<pieces, completed_pieces, high_priority_pieces,
                 on_piece_completed, lock, pc, call, cb_log>>
  /\ UNCHANGED <<rate_vars, cb_reenters, worker_vars>>

\* the first and the last tracked index
SeqTargets == {i \in DOMAIN pieces : i = 0 \/ i + 1 \notin DOMAIN pieces}

NextSeq ==
  \/ \E enable \in BOOLEAN : set_sequential_download(enable)
  \/ \E i \in SeqTargets, p \in PriorityInputs : set_piece_priority(i, p)

SpecSeq == InitSeq /\ [][NextSeq]_all_vars

\* C13: no public operation ever ends in an exception; in particular
\* set_sequential_download(true) returns normally for every number of tracked
\* pieces.
C13_NoException == exception = "none"

\* the priority selection uses for piece p (line 179)
NonIncreasing(pp, n) ==
  \A i, j \in 0 .. (n - 1) : i < j => priority_of(pp, i) >= priority_of(pp, j)

\* C16: after set_sequential_download(true) on a manager with N >= 10 tracked
\* pieces and no explicit priority set beforehand, the effective priority is
\* non-increasing in the piece index, for every N >= 10.
C16_Step ==
  (/\ set_sequential_download(TRUE)
   /\ piece_priorities = <<>>
   /\ Cardinality(DOMAIN pieces) >= 10)
    => NonIncreasing(piece_priorities', Cardinality(DOMAIN pieces))
C16_SequentialNonIncreasing == [][C16_Step]_all_vars

\* ------------------------------------------------------ completion queries
\* PieceManager.is_complete (line 214); no lock is taken
PieceManager_is_complete(cp, ps) == Cardinality(cp) = Cardinality(DOMAIN ps)

\* lines 218-220, as the exact fraction num / den
get_completion_percentage(cp, ps) ==
  IF DOMAIN ps = {}
  THEN [num |-> 0, den |-> 1]
  ELSE [num |-> Cardinality(cp) * 100, den |-> Cardinality(DOMAIN ps)]

\* completed and verified both true
BothFlags(i) == pieces[i].completed /\ pieces[i].verified
\* no add_piece_data call is between line 137 and line 142
NoneAtCompleted == \A w \in Workers : pc[w] # "completed"

\* C14: outside a running add_piece_data, the completed set is exactly the set
\* of tracked pieces whose blocks are all Received and whose buffer hashes to
\* the expected digest, and these are the pieces with completed and verified
\* both true; is_complete() is true iff every tracked piece is verified, it is
\* false while no block was received, and get_completion_percentage() is
\* 100 * (verified pieces) / (tracked pieces).
C14_CompletedSetExact ==
  NoneAtCompleted =>
    LET verified_pieces == {i \in DOMAIN pieces : BothFlags(i)}
        pct == get_completion_percentage(completed_pieces, pieces)
    IN  /\ completed_pieces = verified_pieces
        /\ completed_pieces =
             {i \in DOMAIN pieces : AllReceived(pieces[i]) /\ HashMatches(pieces[i])}
        /\ PieceManager_is_complete(completed_pieces, pieces)
             <=> (\A i \in DOMAIN pieces : pieces[i].verified)
        /\ (\A i \in DOMAIN pieces : ~(\E k \in 1 .. Len(pieces[i].blocks) :
                                          pieces[i].blocks[k].received))
             => ~PieceManager_is_complete(completed_pieces, pieces)
        /\ pct.num * Cardinality(DOMAIN pieces)
             = 100 * Cardinality(verified_pieces) * pct.den

\* every call has returned, one piece is verified and another is not: the
\* percentage is 100 / (tracked pieces) and is_complete() is false
C14_Witness ==
  /\ lock = 0
  /\ Cardinality(completed_pieces) = 1
  /\ get_completion_percentage(completed_pieces, pieces)
       = [num |-> 100, den |-> get_total_pieces]
  /\ ~PieceManager_is_complete(completed_pieces, pieces)
  /\ \E i \in DOMAIN pieces : BothFlags(i)

\* ------------------------------------------------- pieces of every length
MaxPieceLength == 5
PieceLengths == 0 .. MaxPieceLength
\* the content a piece of the given length is the digest of
LengthContent(length) == [k \in 1 .. length |-> k % 2]

\* a manager constructed over one piece of any length
InitLen ==
  /\ \E length \in PieceLengths :
       pieces = [i \in {0} |-> Piece(0, length, sha1_hash(LengthContent(length)))]
  /\ completed_pieces = {}
  /\ high_priority_pieces = {}
  /\ piece_priorities = <<>>
  /\ on_piece_completed = FALSE
  /\ lock = 0
  /\ pc = [w \in Workers |-> "idle"]
  /\ call = [w \in Workers |-> NoCall]
  /\ cb_log = [i \in PieceIds |-> <<>>]
  /\ AuxInit

NextLen ==
  \/ \E w \in Workers, o \in PieceLengths, d \in Payloads :
        add_piece_data(w, 0, o, d)
  \/ \E w \in Workers : add_piece_data_completed(w)
  \/ \E w \in Workers : release_and_return(w)
  \/ \E w \in Workers : get_next_request(w, <<0>>)
  \/ \E w \in Workers, o \in PieceLengths : mark_block_requested(w, 0, o)
  \/ \E w \in Workers : reset_piece_requests(w, 0)

SpecLen == InitLen /\ [][NextLen]_all_vars

\* the (offset, length) of every block of a piece, in order
Shape(piece) ==
  [k \in 1 .. Len(piece.blocks) |->
     <<piece.blocks[k].offset, piece.blocks[k].length>>]

\* the blocks whose range holds byte position x
Covering(piece, x) ==
  {k \in 1 .. Len(piece.blocks) :
     /\ piece.blocks[k].offset <= x
     /\ x < piece.blocks[k].offset + piece.blocks[k].length}

RECURSIVE SumLengths(_, _)
SumLengths(piece, n) ==
  IF n = 0 THEN 0 ELSE piece.blocks[n].length + SumLengths(piece, n - 1)

Tiles(piece) ==
  LET n == Len(piece.blocks)
  IN  /\ \A k \in 1 .. n : piece.blocks[k].offset = (k - 1) * BLOCK_SIZE
      /\ SumLengths(piece, n) = piece.length
      /\ \A k \in 1 .. (n - 1) : piece.blocks[k].length = BLOCK_SIZE
      /\ n > 0 => piece.blocks[n].length \in 1 .. BLOCK_SIZE
      /\ \A x \in 0 .. (piece.length - 1) : Cardinality(Covering(piece, x)) = 1
      /\ \A k \in 1 .. n :
           piece.blocks[k].offset + piece.blocks[k].length <= piece.length

C15_Tiled == \A i \in DOMAIN pieces : Tiles(pieces[i])
C15_Step ==
  \A i \in DOMAIN pieces :
    /\ pieces'[i].length = pieces[i].length
    /\ Shape(pieces'[i]) = Shape(pieces[i])

\* C15: for every piece length L the blocks have offsets 0, B, 2B, ... and
\* lengths that sum to L, tiling [0, L) with no gap and no overlap, every block
\* but the last of length B and the last of length 1..B; no operation changes
\* the (offset, length) of a block, a verification-failure reset included.
C15_PartitionInvariant == []C15_Tiled /\ [][C15_Step]_all_vars

\* a piece whose last block is short has just been reset after a failed
\* verification: the call stored a block, and no block is received
C15_Witness ==
  \E w \in Workers :
    /\ pc[w] = "ret" /\ call[w].op = "add" /\ call[w].ok /\ call[w].line = 158
    /\ pieces[0].length > BLOCK_SIZE
    /\ pieces[0].length % BLOCK_SIZE # 0
    /\ \A k \in 1 .. Len(pieces[0].blocks) : ~pieces[0].blocks[k].received

\* ------------------------------------------------------------------- frame
\* the indices of the blocks of piece i that are not received
NotReceived(ps, i) ==
  {k \in 1 .. Len(ps[i].blocks) : ~ps[i].blocks[k].received}

\* C17: reset_piece_requests(i) on a tracked piece sets every block of i that
\* is not Received to Missing, so that get_next_request can return it again
\* (asked for piece i alone it returns the first of them), and leaves alone the
\* Received blocks of i, its buffer and flags, the completed set, the
\* priorities and every other piece; on an untracked index nothing changes.
C17_Step ==
  \A w \in Workers, i \in IndexInputs :
    reset_piece_requests(w, i) =>
      /\ UNCHANGED <<completed_pieces, high_priority_pieces, piece_priorities,
                     on_piece_completed, cb_log>>
      /\ DOMAIN pieces' = DOMAIN pieces
      /\ \A j \in DOMAIN pieces : j # i => pieces'[j] = pieces[j]
      /\ i \notin DOMAIN pieces => pieces' = pieces
      /\ i \in DOMAIN pieces =>
           /\ [pieces'[i] EXCEPT !.blocks = <<>>] = [pieces[i] EXCEPT !.blocks = <<>>]
           /\ Len(pieces'[i].blocks) = Len(pieces[i].blocks)
           /\ \A k \in 1 .. Len(pieces[i].blocks) :
                IF pieces[i].blocks[k].received
                THEN pieces'[i].blocks[k] = pieces[i].blocks[k]
                ELSE /\ IsMissing(pieces'[i].blocks[k])
                     /\ [pieces'[i].blocks[k] EXCEPT !.requested = TRUE]
                          = [pieces[i].blocks[k] EXCEPT !.requested = TRUE]
           /\ NotReceived(pieces, i) # {} =>
                LET c == choose_block(pieces', completed_pieces,
                                      high_priority_pieces, piece_priorities,
                                      <<i>>)
                IN  /\ c # <<>>
                    /\ c[1] = i
                    /\ c[2] \in NotReceived(pieces, i)
                    /\ \A k \in NotReceived(pieces, i) : c[2] <= k
C17_ResetFrame == [][C17_Step]_vars

\* reset_piece_requests has just run on a piece that had a requested block and
\* a received one: the first is Missing, the second still Received
C17_Witness ==
  \E w \in Workers :
    /\ pc[w] = "ret" /\ call[w].op = "reset"
    /\ call[w].idx \in DOMAIN pieces
    /\ call[w].req # <<>>
    /\ \A k \in Range(call[w].req) : IsMissing(pieces[call[w].idx].blocks[k])
    /\ \E k \in 1 .. Len(pieces[call[w].idx].blocks) :
         pieces[call[w].idx].blocks[k].received
    /\ \E j \in DOMAIN pieces : j # call[w].idx /\ get_requested_blocks(pieces[j]) # <<>>

\* --------------------------------------------------------- block lifecycle
\* the state of a block
St(b) ==
  IF b.received THEN "Received"
  ELSE IF b.requested THEN "Requested" ELSE "Missing"

\* the step is a selection that hands out block k of piece i
SelectedBy(i, k) ==
  \/ \E w \in Workers :
       /\ IsGetCall(w) /\ call'[w].ok
       /\ call'[w].req[1] = i
       /\ call'[w].req[2] = pieces[i].blocks[k].offset
  \/ \E w \in Workers : mark_block_requested(w, i, pieces[i].blocks[k].offset)

\* the step is an add_piece_data call for piece i that stored a block
IngestedBy(i) ==
  \E w \in Workers :
    /\ pc[w] = "idle" /\ pc'[w] \in {"ret", "completed"}
    /\ call'[w].op = "add" /\ call'[w].idx = i /\ call'[w].ok
    /\ call'[w].line = 158

\* the step is the reset of piece i after a failed verification
FailedReset(i) ==
  /\ \E w \in Workers : AtCompleted(w, i) /\ ~pieces[i].verified /\ pc'[w] = "ret"
  /\ \A k \in 1 .. Len(pieces'[i].blocks) :
       St(pieces'[i].blocks[k]) = "Missing" /\ pieces'[i].blocks[k].data = <<>>

\* the transitions of the life cycle as stated: a block is Requested before
\* it is Received
LifecycleAsStated(i, k, from, to) ==
  \/ from = "Missing" /\ to = "Requested" /\ SelectedBy(i, k)
  \/ from = "Requested" /\ to = "Received" /\ IngestedBy(i)
  \/ from = "Requested" /\ to = "Missing"
       /\ \E w \in Workers : reset_piece_requests(w, i)
  \/ from = "Received" /\ to = "Missing" /\ FailedReset(i)

C18_OriginalStep ==
  \A i \in PieceIds : \A k \in 1 .. Len(pieces[i].blocks) :
    LET from == St(pieces[i].blocks[k])
        to == St(pieces'[i].blocks[k])
    IN  from # to => LifecycleAsStated(i, k, from, to)
C18_Original == [][C18_OriginalStep]_vars

C18_Step ==
  \A i \in PieceIds : \A k \in 1 .. Len(pieces[i].blocks) :
    LET from == St(pieces[i].blocks[k])
        to == St(pieces'[i].blocks[k])
    IN  from # to =>
          \/ LifecycleAsStated(i, k, from, to)
          \/ from = "Missing" /\ to = "Received" /\ IngestedBy(i)

\* C18: the state of a block changes only by Missing -> Requested
\* (get_next_request or mark_block_requested), Missing -> Received and
\* Requested -> Received (successful ingest, whether or not the block was
\* requested), Requested -> Missing (reset_piece_requests) and
\* Received -> Missing (only as part of the whole-piece reset after a failed
\* verification).
C18_BlockLifecycle == [][C18_Step]_vars

\* add_piece_data has just stored a block that nobody requested, in a piece
\* that also holds a Requested block
C18_Witness ==
  \E w \in Workers :
    /\ pc[w] = "ret" /\ call[w].op = "add" /\ call[w].ok /\ call[w].line = 158
    /\ call[w].idx \in DOMAIN pieces
    /\ \E k \in 1 .. Len(pieces[call[w].idx].blocks) :
         /\ pieces[call[w].idx].blocks[k].received
         /\ ~pieces[call[w].idx].blocks[k].requested
    /\ get_requested_blocks(pieces[call[w].idx]) # <<>>

\* ------------------------------------------------- callback under the lock
\* variant: the lock is re-entrant
lock_available_reentrant(l, w) == l = 0 \/ l = w

\* threading.Lock (line 98): acquire succeeds only while nobody holds the
\* lock, the caller included
lock_available(l, w) == l = 0

InitCb ==
  /\ pieces = initialize_pieces
  /\ completed_pieces = {}
  /\ high_priority_pieces = {}
  /\ piece_priorities = <<>>
  /\ on_piece_completed = FALSE
  /\ lock = 0
  /\ pc = [w \in Workers |-> "idle"]
  /\ call = [w \in Workers |-> NoCall]
  /\ cb_log = [i \in PieceIds |-> <<>>]
  /\ RateInit
  /\ exception = "none"
  /\ cb_reenters \in BOOLEAN
  /\ WorkerInit

\* worker w calls get_piece_data and reaches `with self.lock` (line 250)
get_piece_data(w, piece_index) ==
  /\ pc[w] = "idle"
  /\ pc' = [pc EXCEPT ![w] = "wait"]
  /\ call' = [call EXCEPT ![w] =
                [op |-> "data", idx |-> piece_index, ok |-> FALSE, req |-> <<>>,
                 line |-> 250, avail |-> {}]]
  /\ UNCHANGED <<pieces, completed_pieces, high_priority_pieces,
                 piece_priorities, on_piece_completed, lock, cb_log>>
  /\ UNCHANGED aux_vars

\* the callback calls get_piece_data of the manager that invoked it and
\* reaches `with self.lock`
callback_reenter(w) ==
  /\ pc[w] = "callback"
  /\ cb_reenters
  /\ pc' = [pc EXCEPT ![w] = "cb_wait"]
  /\ UNCHANGED <<pieces, completed_pieces, high_priority_pieces,
                 piece_priorities, on_piece_completed, lock, call, cb_log>>
  /\ UNCHANGED aux_vars

\* lines 250-254: a waiting get_piece_data call gets the lock; req is the
\* value returned.  A call made by the callback, once it has the lock, returns
\* to the callback, which returns to add_piece_data.
get_piece_data_locked(w) ==
  /\ pc[w] \in {"wait", "cb_wait"}
  /\ lock_available(lock, w)
  /\ lock' = w
  /\ pc' = [pc EXCEPT ![w] = "ret"]
  /\ call' = IF pc[w] = "cb_wait" THEN call
             ELSE LET found == /\ call[w].idx \in completed_pieces
                               /\ call[w].idx \in DOMAIN pieces
                  IN  [call EXCEPT ![w].ok = found,
                                   ![w].req = IF found
                                              THEN pieces[call[w].idx].data
                                              ELSE <<>>,
                                   ![w].line = IF found THEN 253 ELSE 254]
  /\ UNCHANGED <<pieces, completed_pieces, high_priority_pieces,
                 piece_priorities, on_piece_completed, cb_log>>
  /\ UNCHANGED aux_vars

NextCb ==
  \/ \E w \in Workers, i \in IndexInputs, o \in 0 .. (BLOCK_SIZE + 1),
        d \in Payloads : add_piece_data(w, i, o, d)
  \/ \E w \in Workers : add_piece_data_completed(w)
  \/ \E w \in Workers : callback_return(w)
  \/ \E w \in Workers : callback_reenter(w)
  \/ \E w \in Workers, i \in IndexInputs : get_piece_data(w, i)
  \/ \E w \in Workers : get_piece_data_locked(w)
  \/ \E w \in Workers : release_and_return(w)
  \/ register_callback

SpecCb == InitCb /\ [][NextCb]_all_vars

InCallback(w) == pc[w] \in {"callback", "cb_wait"}

\* while the callback runs the lock is held and the piece is recorded
C19_State ==
  \A w \in Workers :
    InCallback(w) => lock = w /\ call[w].idx \in completed_pieces

\* while the callback runs no other worker gets past `with self.lock`, and a
\* callback waiting for the lock waits forever
C19_Step ==
  \A w \in Workers :
    /\ InCallback(w) =>
         /\ \A v \in Workers \ {w} :
              pc'[v] = pc[v] \/ (pc[v] = "idle" /\ pc'[v] = "wait")
         /\ UNCHANGED <<pieces, completed_pieces, lock>>
    /\ pc[w] = "cb_wait" => pc'[w] = "cb_wait"

\* C19: the completion callback runs inside add_piece_data's critical
\* section: the lock is held, the piece is already in the completed set and
\* no other worker's lock-acquiring operation proceeds; a callback that calls
\* a lock-acquiring operation of the same manager never returns and its
\* add_piece_data call never completes.
C19_CallbackUnderLock == []C19_State /\ [][C19_Step]_all_vars

\* the callback is blocked on the lock its own add_piece_data call holds, and
\* every other worker is blocked behind it
C19_Witness ==
  \E w \in Workers :
    /\ pc[w] = "cb_wait" /\ lock = w
    /\ call[w].op = "add" /\ call[w].idx \in completed_pieces
    /\ \A v \in Workers \ {w} : pc[v] = "wait"

\* ------------------------------------------------------------ peer workers
\* the tables of numeric priorities a client can have set
PriorityTables ==
  UNION {[S -> {3, 7}] : S \in SUBSET PieceIds}

\* every piece index, in some order
FullOrders == {order \in Orders : Range(order) = PieceIds}

\* a manager in use: priorities and high-priority pieces set in any way, and
\* a callback registered that does not call back into the manager
InitProgress ==
  /\ pieces = initialize_pieces
  /\ completed_pieces = {}
  /\ high_priority_pieces \in SUBSET PieceIds
  /\ piece_priorities \in PriorityTables
  /\ on_piece_completed = TRUE
  /\ lock = 0
  /\ pc = [w \in Workers |-> "idle"]
  /\ call = [w \in Workers |-> NoCall]
  /\ cb_log = [i \in PieceIds |-> <<>>]
  /\ AuxInit

\* the bytes of the torrent that a triple asks for
CorrectBytes(req) == SubSeq(TorrentContent(req[1]), req[2] + 1, req[2] + req[3])

\* a worker holding no request calls get_next_request with every piece index
\* and keeps the triple returned, if any; the call runs under the lock from
\* beginning to end
worker_request(w, order) ==
  /\ lock = 0
  /\ held[w] = <<>>
  /\ \E c \in {choose_block(pieces, completed_pieces, high_priority_pieces,
                             piece_priorities, order)} :
         /\ c # <<>>
         /\ pieces' = [pieces EXCEPT ![c[1]].blocks[c[2]].requested = TRUE]
         /\ held' = [held EXCEPT ![w] =
                       <<c[1], pieces[c[1]].blocks[c[2]].offset,
                         pieces[c[1]].blocks[c[2]].length>>]
  /\ UNCHANGED <<completed_pieces, high_priority_pieces, piece_priorities,
                 on_piece_completed, lock, pc, call, cb_log>>
  /\ UNCHANGED <<rate_vars, exception, cb_reenters, dropped>>

\* a worker calls add_piece_data with the correct bytes for the triple it
\* holds; the call runs under the lock from beginning to end
worker_deliver(w) ==
  /\ lock = 0
  /\ held[w] # <<>>
  /\ \E r \in {add_piece_data_call(pieces, completed_pieces, cb_log,
                                    on_piece_completed, held[w][1], held[w][2],
                                    CorrectBytes(held[w]))} :
         /\ pieces' = r.pieces
         /\ completed_pieces' = r.completed_pieces
         /\ cb_log' = r.cb_log
  /\ held' = [held EXCEPT ![w] = <<>>]
  /\ UNCHANGED <<high_priority_pieces, piece_priorities, on_piece_completed,
                 lock, pc, call>>
  /\ UNCHANGED <<rate_vars, exception, cb_reenters, dropped>>

\* a worker gives up the request it holds (its peer stalled or disconnected)
\* and nobody calls reset_piece_requests
worker_drop(w) ==
  /\ held[w] # <<>>
  /\ dropped' = dropped \cup {<<held[w][1], held[w][2]>>}
  /\ held' = [held EXCEPT ![w] = <<>>]
  /\ UNCHANGED vars
  /\ UNCHANGED <<rate_vars, exception, cb_reenters>>

NextProgress ==
  \/ \E w \in Workers, order \in FullOrders : worker_request(w, order)
  \/ \E w \in Workers : worker_deliver(w)
  \/ \E w \in Workers : worker_drop(w)

\* every worker keeps asking and keeps delivering what it was given
SpecProgress ==
  /\ InitProgress
  /\ [][NextProgress]_all_vars
  /\ \A w \in Workers :
       /\ WF_all_vars(\E order \in FullOrders : worker_request(w, order))
       /\ WF_all_vars(worker_deliver(w))

Complete == PieceManager_is_complete(completed_pieces, pieces)

\* a dropped block is Requested, and stays so
C20_DroppedState ==
  \A d \in dropped : St(pieces[d[1]].blocks[BlockAt(d[1], d[2])]) = "Requested"

\* C20: with honest workers under weak fairness, for any priorities and
\* high-priority set, is_complete() eventually becomes true unless a request
\* is dropped; a requested block that is never delivered and never reset stays
\* Requested for ever and is_complete() never becomes true.
C20_Progress ==
  /\ <>(Complete \/ dropped # {})
  /\ [](dropped # {} => ~Complete)
  /\ []C20_DroppedState

\* every piece is complete, no request was dropped, and the last piece to
\* complete was a high-priority piece
C20_Witness ==
  /\ Complete
  /\ dropped = {}
  /\ \A w \in Workers : held[w] = <<>>
  /\ high_priority_pieces # {}
  /\ piece_priorities # <<>>

=============================================================================
